---- MODULE Spec2Model ----
(***************************************************************************)
(* A model of src/src/bucketcloner.py: the credential embedder, the        *)
(* paginated workspace lister, the bulk cloner (command `clone`), the      *)
(* project lister and the hierarchical project cloner (`clone_projects`).  *)
(*                                                                         *)
(* Python strings are sequences of one-character strings, so that `in`,    *)
(* split, join and lower are computed and not assumed.  None is the value  *)
(* None below, which is no such sequence.  The remote API, the file system *)
(* and git are the environment: a GET is answered by any page the server   *)
(* may hold behind the URL, a clone either succeeds (the directory then    *)
(* exists) or raises (the run then ends, uncaught).                        *)
(***************************************************************************)
EXTENDS Integers, Sequences, FiniteSets, TLC

VARIABLES
    pc,          \* position of the program
    argv,        \* the parsed command line / the arguments of the call
    loc,         \* local variables of the functions in progress
    pages,       \* server: the pages it answered to the walk in progress
    fs,          \* file system: the set of paths that exist
    trace,       \* external calls and printed messages of the walk in progress
    totals,      \* clone_projects: the totals printed for the workspace in progress
    ret          \* value returned by the last function that returned

vars == <<pc, argv, loc, pages, fs, trace, totals, ret>>

-----------------------------------------------------------------------------
(* Bounds of the model. *)

MaxUrlLen == 5
MaxPages == 2
MaxItems == 2

-----------------------------------------------------------------------------
(* Python values and string operations. *)

None == <<"None">>

\* s[i:] for a 1-based i
Drop(s, i) == SubSeq(s, i, Len(s))

\* whether sep occurs in s at position i
OccursAt(s, sep, i) ==
    /\ i >= 1
    /\ i + Len(sep) - 1 <= Len(s)
    /\ SubSeq(s, i, i + Len(sep) - 1) = sep

\* positions at which sep occurs in s
Occurrences(s, sep) == {i \in 1..Len(s) : OccursAt(s, sep, i)}

\* Python: sep in s   (sep not empty)
Contains(s, sep) == Occurrences(s, sep) # {}

Min(S) == CHOOSE x \in S : \A y \in S : x <= y

\* Python: s.split(sep): left to right, occurrences do not overlap
RECURSIVE Split(_, _)
Split(s, sep) ==
    IF ~Contains(s, sep)
    THEN <<s>>
    ELSE LET i == Min(Occurrences(s, sep))
         IN <<SubSeq(s, 1, i - 1)>> \o Split(Drop(s, i + Len(sep)), sep)

\* Python: s.strip(), with the space as the only whitespace of the model
RECURSIVE Strip(_)
Strip(s) ==
    IF s = <<>> THEN s
    ELSE IF Head(s) = " " THEN Strip(Tail(s))
    ELSE IF s[Len(s)] = " " THEN Strip(SubSeq(s, 1, Len(s) - 1))
    ELSE s

\* Python: c.lower() on the letters of the model
LowerChar(c) ==
    CASE c = "W" -> "w"
      [] c = "P" -> "p"
      [] c = "R" -> "r"
      [] OTHER -> c

Lower(s) == [i \in 1..Len(s) |-> LowerChar(s[i])]

RECURSIVE Concat(_)
Concat(ss) == IF ss = <<>> THEN <<>> ELSE Head(ss) \o Concat(Tail(ss))

-----------------------------------------------------------------------------
(* add_credentials *)

HttpsPrefix == <<"h", "t", "t", "p", "s", ":", "/", "/">>

\* the URL the function builds around the host and path it found
WithCredentials(user, password, repo) ==
    HttpsPrefix \o user \o <<":">> \o password \o <<"@">> \o repo

add_credentials(url, user, password) ==
    IF Contains(url, <<"@">>)
    THEN WithCredentials(user, password, Split(url, <<"@">>)[2])
    ELSE IF Contains(url, <<"/", "/">>)
    THEN WithCredentials(user, password, Split(url, <<"/", "/">>)[2])
    ELSE None

\* what add_credentials prints
add_credentials_out(url) ==
    IF Contains(url, <<"@">>) \/ Contains(url, <<"/", "/">>)
    THEN <<>>
    ELSE << [op |-> "print", msg |-> "invalid_url", url |-> url] >>

-----------------------------------------------------------------------------
(* The data of the remote API. *)

SeqsUpTo(S, n) == UNION {[1..k -> S] : k \in 0..n}

User == <<"u">>
Password == <<"p">>

HrefSlashes == <<"/", "/", "h">>
HrefBare == <<"h">>

LinkSsh == [name |-> "ssh", href |-> <<"g", "@", "h">>]
LinkHttps(href) == [name |-> "https", href |-> href]

RepoNames == { <<"r">>, <<"R">> }

\* the repositories of the model: git ones with an https link whose href
\* has "//", under both names; a git one whose first https link has neither
\* "//" nor "@"; a git one with no https link; a mercurial one
Repos ==
    [name : RepoNames, scm : {"git"},
     links : { <<LinkSsh, LinkHttps(HrefSlashes)>> }]
      \cup { [name |-> <<"r">>, scm |-> "git",
              links |-> <<LinkHttps(HrefBare), LinkHttps(HrefSlashes)>>],
             [name |-> <<"r">>, scm |-> "git", links |-> <<LinkSsh>>],
             [name |-> <<"r">>, scm |-> "hg",
              links |-> <<LinkHttps(HrefSlashes)>>] }

WsItems ==
    { [name |-> <<"W">>, slug |-> <<"w">>, href |-> <<"/", "w">>],
      [name |-> <<"W", " ", "p">>, slug |-> <<"w", "-", "p">>,
       href |-> <<"/", "w", "-", "p">>] }

\* the JSON of a workspace item: workspace['links']['html']['href'] is href

\* the number of items in the pages served
RECURSIVE Served(_)
Served(ps) == IF ps = <<>> THEN 0 ELSE Len(Head(ps).values) + Served(Tail(ps))

\* requests.get(url, auth=(user, password)): what the server may answer to a
\* GET of url after the pages ps of this walk.  The JSON of a page has the
\* key `next` (here a one-element sequence) with the URL of the page after
\* it, or has no such key (the empty sequence).
Answers(S, url, ps) ==
    {[status |-> 404, values |-> <<>>, next |-> <<>>]}
        \cup
    [status : {200},
     values : SeqsUpTo(S, MaxItems - Served(ps)),
     next : {<<>>} \cup (IF url.page < MaxPages
                         THEN {<<[url EXCEPT !.page = @ + 1]>>}
                         ELSE {})]

EvGet(url, resp) == [op |-> "get", url |-> url, status |-> resp.status]
EvWarnOk(url, resp) ==
    [op |-> "print", msg |-> "status", url |-> url, status |-> 200]

\* lines 83 and 136: the warning names the url and the status code
EvWarn(url, resp) ==
    [op |-> "print", msg |-> "status", url |-> url, status |-> resp.status]

WorkspacesUrl == [ep |-> "workspaces", ws |-> None, q |-> None, page |-> 1]

RepositoriesUrl(workspace, project) ==
    [ep |-> "repositories", ws |-> workspace, q |-> project, page |-> 1]

-----------------------------------------------------------------------------
(* list_bitbucket_workspaces *)

WorkspaceRecord(workspace) ==
    [name |-> workspace.name, slug |-> workspace.slug, url |-> workspace.href]

MapWorkspaces(values) == [i \in 1..Len(values) |-> WorkspaceRecord(values[i])]

NoUrl == [ep |-> "", ws |-> None, q |-> None, page |-> 0]
NoPage == [status |-> 0, values |-> <<>>, next |-> <<>>]

Loc0 ==
    [url |-> NoUrl, workspaces |-> <<>>, wi |-> 0, workspace |-> None,
     skip_existing |-> FALSE, project |-> None, page |-> NoPage, ri |-> 0,
     root_path |-> None, workspace_name |-> None, target_hit |-> <<>>,
     w_folder_name |-> None, projects |-> <<>>, pi |-> 0,
     project_folder_name |-> None, repositories |-> <<>>,
     total_projects |-> 0, total_repos_in_proj |-> 0, total_repos_in_w |-> 0]

\* the call list_bitbucket_workspaces(user, password): its first url and
\* its empty list
CallLister(l) ==
    /\ loc' = [l EXCEPT !.url = WorkspacesUrl, !.workspaces = <<>>]
    /\ pages' = <<>>
    /\ trace' = <<>>
    /\ pc' = "lister"

\* lines 131-133 after a page: the url of the next page, or the loop ends
NextUrlSame(url, resp) == url

NextUrl(url, resp) == resp.next[1]

\* one turn of the while loop of list_bitbucket_workspaces
ListerGet ==
    /\ pc = "lister"
    /\ \E resp \in Answers(WsItems, loc.url, pages) :
        LET ws == loc.workspaces \o MapWorkspaces(resp.values)
        IN /\ pages' = Append(pages, resp)
           /\ IF resp.status = 200
              THEN IF resp.next = <<>>
                   THEN /\ loc' = [loc EXCEPT !.workspaces = ws]
                        /\ trace' = Append(trace, EvGet(loc.url, resp))
                        /\ ret' = ws
                        /\ pc' = "lister_ret"
                   ELSE /\ loc' = [loc EXCEPT !.workspaces = ws,
                                              !.url = NextUrl(loc.url, resp)]
                        /\ trace' = Append(trace, EvGet(loc.url, resp))
                        /\ UNCHANGED ret
                        /\ pc' = "lister"
              ELSE /\ trace' = trace \o <<EvGet(loc.url, resp),
                                          EvWarn(loc.url, resp)>>
                   /\ ret' = loc.workspaces
                   /\ pc' = "lister_ret"
                   /\ UNCHANGED loc
    /\ UNCHANGED <<argv, fs, totals>>

-----------------------------------------------------------------------------
(* main: the `workspace` command *)

MainWorkspace ==
    /\ pc = "main"
    /\ argv.command = "workspace"
    /\ CallLister(loc)
    /\ UNCHANGED <<argv, fs, totals, ret>>

PrintWorkspace(w) ==
    [op |-> "print", msg |-> "workspace", name |-> w.name, slug |-> w.slug,
     url |-> w.url]

MainWorkspacePrint ==
    /\ pc = "lister_ret"
    /\ argv.command = "workspace"
    /\ trace' = trace \o [i \in 1..Len(ret) |-> PrintWorkspace(ret[i])]
    /\ pc' = "done"
    /\ UNCHANGED <<argv, loc, pages, fs, totals, ret>>

-----------------------------------------------------------------------------
(* The file system. *)

PathJoin(a, b) == a \o <<"/">> \o b

\* os.path.exists
Exists(f, path) == path \in f

IsPrefix(p, q) == Len(p) <= Len(q) /\ SubSeq(q, 1, Len(p)) = p

\* shutil.rmtree(path): the directory and everything below it
RmTree(f, path) == {q \in f : q # path /\ ~IsPrefix(path \o <<"/">>, q)}

\* the directories above path
Parents(path) == {SubSeq(path, 1, i - 1) : i \in {j \in 2..Len(path) : path[j] = "/"}}

\* a clone that succeeded: path exists, and so do the directories above it
Cloned(f, path) == f \cup {path} \cup Parents(path)

-----------------------------------------------------------------------------
(* _clone_bitbucket_workspace: what it does with one repository *)

HttpsLinkFirst(links) ==
    IF links # <<>> /\ Head(links).name = "https" THEN Head(links).href ELSE None

\* lines 55-59: the href of the first clone link named https, or None
RECURSIVE HttpsLink(_)
HttpsLink(links) ==
    IF links = <<>> THEN None
    ELSE IF Head(links).name = "https" THEN Head(links).href
    ELSE HttpsLink(Tail(links))

EvPrint(msg, name) == [op |-> "print", msg |-> msg, name |-> name]
EvRmTree(path) == [op |-> "rmtree", path |-> path]
EvClone(url, path, f) ==
    [op |-> "clone", url |-> url, path |-> path, exists |-> Exists(f, path)]

\* lines 73-74: the credentials go into the URL and clone_from is called,
\* whatever add_credentials returned
CredentialsAndClone(f, repo_url, path, user, password) ==
    [events |-> add_credentials_out(repo_url)
                  \o <<EvClone(add_credentials(repo_url, user, password), path, f)>>,
     fs |-> f, clone |-> TRUE]

ExistingSkippedDeletes(f, repo, path) ==
    [events |-> <<EvPrint("skip_exists", repo.name), EvRmTree(path)>>,
     fs |-> RmTree(f, path), clone |-> FALSE]

\* lines 66-72 with skip_existing true: an existing directory is skipped
ExistingSkipped(f, repo, path) ==
    [events |-> <<EvPrint("skip_exists", repo.name)>>, fs |-> f, clone |-> FALSE]

\* lines 66-72 with skip_existing false: an existing directory is deleted
ExistingDeletedNot(f, repo, path, user, password) ==
    LET c == CredentialsAndClone(f, HttpsLink(repo.links), path, user, password)
    IN [c EXCEPT !.events = <<EvPrint("deleting", repo.name)>> \o @]

ExistingDeleted(f, repo, path, user, password) ==
    LET c == CredentialsAndClone(RmTree(f, path), HttpsLink(repo.links), path,
                                 user, password)
    IN [c EXCEPT !.events =
            <<EvPrint("deleting", repo.name), EvRmTree(path)>> \o @]

\* lines 52-77: the events of one repository, the file system before the
\* clone runs, and whether clone_from is called
RepoStep(f, repo, workspace, skip_existing, user, password) ==
    LET repo_url == HttpsLink(repo.links)
        path == PathJoin(workspace, repo.name)
        cloning == [op |-> "print", msg |-> "cloning", name |-> repo.name,
                    url |-> repo_url, into |-> workspace]
        pre(r) == [r EXCEPT !.events = <<cloning>> \o @]
    IN IF repo.scm = "git"
       THEN IF repo_url = None
            THEN [events |-> <<EvPrint("skip_nolink", repo.name)>>, fs |-> f,
                  clone |-> FALSE]
            ELSE IF Exists(f, path)
                 THEN IF skip_existing
                      THEN pre(ExistingSkipped(f, repo, path))
                      ELSE pre(ExistingDeleted(f, repo, path, user, password))
                 ELSE pre(CredentialsAndClone(f, repo_url, path, user, password))
       ELSE [events |-> <<EvPrint("skip_scm", repo.name)>>, fs |-> f,
             clone |-> FALSE]

-----------------------------------------------------------------------------
(* main and clone_bitbucket: the `clone` command *)

\* line 242: -s/--skip-existing is a store_true flag, False when not given
SkipExistingAlways(flag) == TRUE

SkipExistingOption(flag) == flag

Slugs(ws) == [i \in 1..Len(ws) |-> ws[i].slug]

\* lines 248-249 and 95-98
MainClone ==
    /\ pc = "main"
    /\ argv.command = "clone"
    /\ LET l == [loc EXCEPT !.skip_existing = SkipExistingOption(argv.s),
                            !.project = argv.project]
       IN IF argv.workspace = None
          THEN CallLister(l)
          ELSE /\ loc' = [l EXCEPT !.workspaces = Split(argv.workspace, <<",">>),
                                   !.wi = 1]
               /\ pc' = "ws_loop"
               /\ UNCHANGED <<pages, trace>>
    /\ UNCHANGED <<argv, fs, totals, ret>>

\* line 96, once list_bitbucket_workspaces has returned
CloneListed ==
    /\ pc = "lister_ret"
    /\ argv.command = "clone"
    /\ loc' = [loc EXCEPT !.workspaces = Slugs(ret), !.wi = 1]
    /\ pc' = "ws_loop"
    /\ UNCHANGED <<argv, pages, fs, trace, totals, ret>>

\* line 44-46: the first url of the repositories of a workspace
FirstUrl(workspace, project) == RepositoriesUrl(workspace, project)

\* lines 100-103: the directory of the workspace, and the call of
\* _clone_bitbucket_workspace
CloneWorkspace ==
    /\ pc = "ws_loop"
    /\ loc.wi <= Len(loc.workspaces)
    /\ LET workspace == loc.workspaces[loc.wi]
       IN /\ IF Exists(fs, workspace)
             THEN /\ fs' = fs
                  /\ trace' = <<>>
             ELSE /\ fs' = fs \cup {workspace}
                  /\ trace' = <<[op |-> "mkdir", path |-> workspace]>>
          /\ loc' = [loc EXCEPT !.workspace = workspace,
                                !.url = FirstUrl(workspace, loc.project)]
    /\ pages' = <<>>
    /\ pc' = "repo_get"
    /\ UNCHANGED <<argv, totals, ret>>

CloneEnd ==
    /\ pc = "ws_loop"
    /\ loc.wi > Len(loc.workspaces)
    /\ pc' = "done"
    /\ UNCHANGED <<argv, loc, pages, fs, trace, totals, ret>>

\* _clone_bitbucket_workspace returns: its locals are gone, and the loop of
\* clone_bitbucket goes to the next workspace
Returned(l) ==
    [l EXCEPT !.wi = @ + 1, !.url = NoUrl, !.page = NoPage, !.ri = 0,
              !.workspace = None]

\* line 48: the GET of a page of repositories, and lines 82-83
RepoGet ==
    /\ pc = "repo_get"
    /\ \E resp \in Answers(Repos, loc.url, pages) :
        /\ pages' = Append(pages, resp)
        /\ IF resp.status = 200
           THEN /\ loc' = [loc EXCEPT !.page = resp, !.ri = 1]
                /\ trace' = Append(trace, EvGet(loc.url, resp))
                /\ pc' = "repo_item"
           ELSE /\ loc' = Returned(loc)
                /\ trace' = trace \o <<EvGet(loc.url, resp), EvWarn(loc.url, resp)>>
                /\ pc' = "ws_loop"
    /\ UNCHANGED <<argv, fs, totals, ret>>

\* lines 51-77 for one repository of the page; clone_from returns, or raises
RepoItem ==
    /\ pc = "repo_item"
    /\ loc.ri <= Len(loc.page.values)
    /\ LET step == RepoStep(fs, loc.page.values[loc.ri], loc.workspace,
                            loc.skip_existing, User, Password)
           path == PathJoin(loc.workspace, loc.page.values[loc.ri].name)
       IN /\ trace' = trace \o step.events
          /\ IF step.clone
             THEN \/ /\ fs' = Cloned(step.fs, path)
                     /\ loc' = [loc EXCEPT !.ri = @ + 1]
                     /\ pc' = "repo_item"
                  \/ /\ fs' = step.fs
                     /\ pc' = "raised"
                     /\ UNCHANGED loc
             ELSE /\ fs' = step.fs
                  /\ loc' = [loc EXCEPT !.ri = @ + 1]
                  /\ pc' = "repo_item"
    /\ UNCHANGED <<argv, pages, totals, ret>>

\* lines 79-81: after the last repository of a page
RepoPageEnd ==
    /\ pc = "repo_item"
    /\ loc.ri > Len(loc.page.values)
    /\ IF loc.page.next = <<>>
       THEN /\ loc' = Returned(loc)
            /\ pc' = "ws_loop"
       ELSE /\ loc' = [loc EXCEPT !.url = NextUrl(loc.url, loc.page)]
            /\ pc' = "repo_get"
    /\ UNCHANGED <<argv, pages, fs, trace, totals, ret>>

-----------------------------------------------------------------------------
(* clone_projects: the `clone_projects` command *)

Projects ==
    { [name |-> <<"P">>,
       href |-> [ep |-> "project", ws |-> None, q |-> <<"P">>, page |-> 1]],
      [name |-> <<"p", "-", "r">>,
       href |-> [ep |-> "project", ws |-> None, q |-> <<"p", "-", "r">>,
                 page |-> 1]] }

\* project['links']['repositories']['href'] is href

\* what the server may answer to a GET the code does not follow: the key
\* `next` is not read, and left out
SingleAnswers(S) ==
    {[status |-> 404, values |-> <<>>, next |-> <<>>]}
        \cup [status : {200}, values : SeqsUpTo(S, MaxItems), next : {<<>>}]

ProjectsUrl(w_slug) == [ep |-> "projects", ws |-> w_slug, q |-> None, page |-> 1]

\* lines 169-170, 181, 191: the folder name of a slug or of a project name
chars_to_replace == {" ", "-", "/", "\\"}

Sanitize(name) ==
    Lower([i \in 1..Len(name) |->
              IF name[i] \in chars_to_replace THEN "_" ELSE name[i]])

\* os.path.join of two components
OsPathJoin(a, b) ==
    IF b # <<>> /\ Head(b) = "/" THEN b
    ELSE IF a = <<>> \/ a[Len(a)] = "/" THEN a \o b
    ELSE a \o <<"/">> \o b

\* line 178: workspace_name in w_slug
KeywordInAny(workspace_name, w_slug) == TRUE

KeywordIn(workspace_name, w_slug) ==
    workspace_name = <<>> \/ Contains(w_slug, workspace_name)

\* lines 166-172 and 231-234
MainCloneProjects ==
    /\ pc = "main"
    /\ argv.command = "clone_projects"
    /\ LET root_path == Strip(argv.root)
           workspace_name == Strip(argv.keyword)
           l == [loc EXCEPT !.root_path = root_path,
                            !.workspace_name = workspace_name]
       IN IF workspace_name # <<>>
          THEN IF Exists(fs, root_path)
               THEN CallLister(l)
               ELSE /\ trace' = <<EvPrint("invalid_path", root_path)>>
                    /\ loc' = l
                    /\ pc' = "done"
                    /\ UNCHANGED pages
          ELSE /\ trace' = <<EvPrint("invalid_keyword", workspace_name)>>
               /\ loc' = l
               /\ pc' = "done"
               /\ UNCHANGED pages
    /\ UNCHANGED <<argv, fs, totals, ret>>

\* lines 172-173, once list_bitbucket_workspaces has returned
ProjectsListed ==
    /\ pc = "lister_ret"
    /\ argv.command = "clone_projects"
    /\ loc' = [loc EXCEPT !.workspaces = ret, !.target_hit = <<>>, !.wi = 1]
    /\ pc' = "h_ws"
    /\ UNCHANGED <<argv, pages, fs, trace, totals, ret>>

\* lines 174-185 and 226-227: one workspace, and the GET of its projects
HWorkspace ==
    /\ pc = "h_ws"
    /\ loc.wi <= Len(loc.workspaces)
    /\ LET w == loc.workspaces[loc.wi]
           l == [loc EXCEPT !.total_projects = 0, !.total_repos_in_w = 0]
       IN IF KeywordIn(loc.workspace_name, w.slug)
          THEN \E resp \in SingleAnswers(Projects) :
                /\ trace' = << [op |-> "print", msg |-> "found", name |-> w.name,
                                slug |-> w.slug, url |-> w.url],
                               EvGet(ProjectsUrl(w.slug), resp) >>
                /\ totals' = <<>>
                /\ IF resp.status = 200
                   THEN /\ loc' = [l EXCEPT !.target_hit = Append(@, TRUE),
                                            !.w_folder_name = Sanitize(w.slug),
                                            !.projects = resp.values,
                                            !.pi = 1]
                        /\ pc' = "h_proj"
                   ELSE /\ loc' = [l EXCEPT !.target_hit = Append(@, TRUE),
                                            !.w_folder_name = Sanitize(w.slug),
                                            !.wi = @ + 1]
                        /\ pc' = "h_ws"
          ELSE /\ loc' = [l EXCEPT !.target_hit = Append(@, FALSE), !.wi = @ + 1]
               /\ pc' = "h_ws"
               /\ UNCHANGED <<trace, totals>>
    /\ UNCHANGED <<argv, pages, fs, ret>>

\* lines 186-195: one project, and the GET of its repositories
HProject ==
    /\ pc = "h_proj"
    /\ loc.pi <= Len(loc.projects)
    /\ LET project == loc.projects[loc.pi]
           l == [loc EXCEPT !.total_projects = @ + 1,
                            !.total_repos_in_proj = 0,
                            !.project_folder_name = Sanitize(project.name)]
       IN \E resp \in SingleAnswers(Repos) :
            /\ trace' = << EvPrint("project", project.name),
                           EvGet(project.href, resp) >>
            /\ IF resp.status = 200
               THEN /\ loc' = [l EXCEPT !.repositories = resp.values, !.ri = 1]
                    /\ pc' = "h_repo"
               ELSE /\ loc' = [l EXCEPT !.pi = @ + 1]
                    /\ pc' = "h_proj"
    /\ UNCHANGED <<argv, pages, fs, totals, ret>>

\* line 197: the repository is counted, whatever it is
CountQualifying(n, repo) ==
    IF repo.scm = "git" /\ HttpsLink(repo.links) # None THEN n + 1 ELSE n

CountRepo(n, repo) == n + 1

\* lines 198-222: the events of one repository and whether clone_from is called
HRepoStep(f, repo, repo_path, user, password) ==
    LET repo_url == HttpsLink(repo.links)
    IN IF repo.scm = "git"
       THEN IF repo_url = None
            THEN [events |-> <<EvPrint("skip_nolink", repo.name)>>, clone |-> FALSE]
            ELSE IF ~Exists(f, repo_path)
                 THEN [events |->
                          add_credentials_out(repo_url)
                            \o << [op |-> "print", msg |-> "cloning",
                                   name |-> repo.name, url |-> repo_url,
                                   into |-> repo_path],
                                  EvClone(add_credentials(repo_url, user, password),
                                          repo_path, f) >>,
                       clone |-> TRUE]
                 ELSE [events |-> <<EvPrint("skip_exists", repo.name)>>,
                       clone |-> FALSE]
       ELSE [events |-> <<EvPrint("skip_scm", repo.name)>>, clone |-> FALSE]

\* lines 196-222 for one repository; clone_from returns, or raises
HRepo ==
    /\ pc = "h_repo"
    /\ loc.ri <= Len(loc.repositories)
    /\ LET repo == loc.repositories[loc.ri]
           project_path == OsPathJoin(OsPathJoin(loc.root_path, loc.w_folder_name),
                                      loc.project_folder_name)
           repo_path == OsPathJoin(project_path, Lower(repo.name))
           step == HRepoStep(fs, repo, repo_path, User, Password)
           l == [loc EXCEPT !.total_repos_in_proj = CountRepo(@, repo)]
       IN /\ trace' = trace \o step.events
          /\ IF step.clone
             THEN \/ /\ fs' = Cloned(fs, repo_path)
                     /\ loc' = [l EXCEPT !.ri = @ + 1]
                     /\ pc' = "h_repo"
                  \/ /\ fs' = fs
                     /\ loc' = l
                     /\ pc' = "raised"
             ELSE /\ fs' = fs
                  /\ loc' = [l EXCEPT !.ri = @ + 1]
                  /\ pc' = "h_repo"
    /\ UNCHANGED <<argv, pages, totals, ret>>

\* lines 223-224: after the last repository of a project
HProjectEnd ==
    /\ pc = "h_repo"
    /\ loc.ri > Len(loc.repositories)
    /\ trace' = Append(trace, [op |-> "print", msg |-> "repos_in_project",
                               n |-> loc.total_repos_in_proj])
    /\ totals' = Append(totals, loc.total_repos_in_proj)
    /\ loc' = [loc EXCEPT !.total_repos_in_w = @ + loc.total_repos_in_proj,
                          !.pi = @ + 1]
    /\ pc' = "h_proj"
    /\ UNCHANGED <<argv, pages, fs, ret>>

\* line 225: after the last project of a workspace (the lists of the
\* workspace are read no more: line 185 and line 195 set them again)
HWorkspaceEnd ==
    /\ pc = "h_proj"
    /\ loc.pi > Len(loc.projects)
    /\ trace' = Append(trace, [op |-> "print", msg |-> "totals",
                               projects |-> loc.total_projects,
                               repos |-> loc.total_repos_in_w])
    /\ loc' = [loc EXCEPT !.wi = @ + 1, !.projects = <<>>, !.pi = 0,
                          !.repositories = <<>>, !.ri = 0]
    /\ pc' = "h_ws"
    /\ UNCHANGED <<argv, pages, fs, totals, ret>>

\* any(target_hit)
AnyHit(hits) == \E i \in 1..Len(hits) : hits[i]

\* lines 228-230: after the last workspace
HEnd ==
    /\ pc = "h_ws"
    /\ loc.wi > Len(loc.workspaces)
    /\ IF ~AnyHit(loc.target_hit)
       THEN trace' = trace \o << [op |-> "print", msg |-> "target_hit",
                                  hits |-> loc.target_hit],
                                 EvPrint("no_match", loc.workspace_name) >>
       ELSE trace' = trace
    /\ pc' = "done"
    /\ UNCHANGED <<argv, loc, pages, fs, totals, ret>>

-----------------------------------------------------------------------------
(* The command lines and the directories a run starts with. *)

Args(command, workspace, s, project) ==
    [command |-> command, workspace |-> workspace, s |-> s, project |-> project,
     root |-> None, keyword |-> None, url |-> None,
     user |-> User, password |-> Password]

\* clone_projects reads the root path and the keyword from the terminal
Answered(root, keyword) ==
    [Args("clone_projects", None, FALSE, None) EXCEPT
        !.root = root, !.keyword = keyword]

\* clone with -w, with and without -s and --project
CloneArgs ==
    {Args("clone", <<"w">>, s, None) : s \in BOOLEAN}
      \cup {Args("clone", <<"w", ",", "w", "-", "p">>, s, <<"K">>) : s \in BOOLEAN}

\* clone without -w: the workspaces are those the lister returns
CloneAllArgs == {Args("clone", None, s, None) : s \in BOOLEAN}

\* the directories of workspace w that may exist when the run starts
InitDirs ==
    { {}, {<<"w">>}, {<<"w">>, <<"w", "/", "r">>},
      {<<"w">>, <<"w", "/", "r">>, <<"w", "/", "R">>,
       <<"w", "/", "r", "/", "f">>} }

Init ==
    /\ pc = "main"
    /\ argv \in CloneArgs \cup {Args("workspace", None, FALSE, None)}
    /\ loc = Loc0
    /\ pages = <<>>
    /\ fs \in InitDirs
    /\ trace = <<>>
    /\ totals = <<>>
    /\ ret = None

Next ==
    \/ MainWorkspace
    \/ MainWorkspacePrint
    \/ ListerGet
    \/ MainClone
    \/ CloneWorkspace
    \/ CloneEnd
    \/ RepoGet
    \/ RepoItem
    \/ RepoPageEnd

Spec == Init /\ [][Next]_vars

\* the `clone_projects` command
HierArgs ==
    {Answered(root, keyword) :
        root \in { <<"t", " ">>, <<"n">> },
        keyword \in { <<>>, <<" ">>, <<"p", " ">>, <<"z">> }}

HierDirs ==
    { {<<"t">>},
      {<<"t">>, <<"t", "/", "w", "_", "p">>,
       <<"t", "/", "w", "_", "p", "/", "p">>,
       <<"t", "/", "w", "_", "p", "/", "p", "/", "r">>} }

InitHier ==
    /\ pc = "main"
    /\ argv \in HierArgs
    /\ loc = Loc0
    /\ pages = <<>>
    /\ fs \in HierDirs
    /\ trace = <<>>
    /\ totals = <<>>
    /\ ret = None

NextHier ==
    \/ MainCloneProjects
    \/ ListerGet
    \/ ProjectsListed
    \/ HWorkspace
    \/ HProject
    \/ HRepo
    \/ HProjectEnd
    \/ HWorkspaceEnd
    \/ HEnd

SpecHier == InitHier /\ [][NextHier]_vars

\* every command of main that is modelled, clone without -w included
InitMain ==
    /\ pc = "main"
    /\ \/ /\ argv \in CloneArgs \cup CloneAllArgs
                      \cup {Args("workspace", None, FALSE, None)}
          /\ fs \in InitDirs
       \/ /\ argv \in HierArgs
          /\ fs \in HierDirs
    /\ loc = Loc0
    /\ pages = <<>>
    /\ trace = <<>>
    /\ totals = <<>>
    /\ ret = None

NextMain == Next \/ CloneListed \/ NextHier

SpecMain == InitMain /\ [][NextMain]_vars

-----------------------------------------------------------------------------
(* add_credentials, called on its own *)

UrlChars == {"@", "/", "h"}

CredArgs ==
    {[Args("add_credentials", None, FALSE, None) EXCEPT
         !.url = url, !.user = user, !.password = password] :
        url \in SeqsUpTo(UrlChars, MaxUrlLen),
        user \in { <<"u">> },
        password \in { <<"p">>, <<"p", "@">> }}

AddCredentialsCall ==
    /\ pc = "call"
    /\ ret' = add_credentials(argv.url, argv.user, argv.password)
    /\ trace' = add_credentials_out(argv.url)
    /\ pc' = "returned"
    /\ UNCHANGED <<argv, loc, pages, fs, totals>>

InitCred ==
    /\ pc = "call"
    /\ argv \in CredArgs
    /\ loc = Loc0
    /\ pages = <<>>
    /\ fs = {}
    /\ trace = <<>>
    /\ totals = <<>>
    /\ ret = None

NextCred == AddCredentialsCall

SpecCred == InitCred /\ [][NextCred]_vars

-----------------------------------------------------------------------------
(* What the properties below read off a state. *)

Last(q) == q[Len(q)]

Max(S) == CHOOSE x \in S : \A y \in S : x >= y

Events(tr, op) == SelectSeq(tr, LAMBDA e : e.op = op)

Prints(tr, msg) == SelectSeq(tr, LAMBDA e : e.op = "print" /\ e.msg = msg)

\* the items of all the pages served, in page order
Listing(ps) == Concat([i \in 1..Len(ps) |-> ps[i].values])

Names(items) == [i \in 1..Len(items) |-> items[i].name]

AllOk(ps) == \A i \in 1..Len(ps) : ps[i].status = 200

\* the URL of each page of a chain: the first one, then each page's `next`
ChainUrls(first, ps) ==
    [i \in 1..Len(ps) |->
        IF i = 1 THEN first
        ELSE IF ps[i - 1].next = <<>> THEN NoUrl ELSE ps[i - 1].next[1]]

GetUrls(tr) == [i \in 1..Len(Events(tr, "get")) |-> Events(tr, "get")[i].url]

HasHttps(repo) == \E i \in 1..Len(repo.links) : repo.links[i].name = "https"

Qualifies(repo) == repo.scm = "git" /\ HasHttps(repo)

Qualifying(items) == SelectSeq(items, LAMBDA r : Qualifies(r))

\* the repositories the bulk cloner has taken up, by their first message
Processed(tr) ==
    Names(SelectSeq(tr, LAMBDA e :
        e.op = "print" /\ e.msg \in {"cloning", "skip_nolink", "skip_scm"}))

SkipMessages(tr) ==
    SelectSeq(tr, LAMBDA e : e.op = "print" /\ e.msg \in {"skip_nolink", "skip_scm"})

ListerReturned == pc = "lister_ret"

\* _clone_bitbucket_workspace has returned: pages and trace are its own
WalkReturned == pc = "ws_loop" /\ loc.wi > 1

WalkedUrl == RepositoriesUrl(loc.workspaces[loc.wi - 1], loc.project)

\* the bulk cloner is about to take up a repository
AtRepo == pc = "repo_item" /\ loc.ri <= Len(loc.page.values)

CurRepo == loc.page.values[loc.ri]

CurPath == PathJoin(loc.workspace, CurRepo.name)

\* the events a step adds to the trace
NewEvents == SubSeq(trace', Len(trace) + 1, Len(trace'))

RECURSIVE Sum(_)
Sum(q) == IF q = <<>> THEN 0 ELSE Head(q) + Sum(Tail(q))

-----------------------------------------------------------------------------
(* The properties. *)

\* C1: with skip_existing true, a git repository with an https link whose
\* directory exists when it is reached is not cloned, nothing is deleted and
\* the file system is left as it was.
C1_SkipExistingLeaves ==
    [][ (AtRepo /\ loc.skip_existing /\ Qualifies(CurRepo) /\ Exists(fs, CurPath))
          => /\ fs' = fs
             /\ Events(NewEvents, "clone") = <<>>
             /\ Events(NewEvents, "rmtree") = <<>>
             /\ pc' = "repo_item"
             /\ loc'.ri = loc.ri + 1 ]_vars

C1_Witness ==
    /\ pc = "repo_item"
    /\ loc.skip_existing
    /\ trace # <<>>
    /\ Last(trace).op = "print"
    /\ Last(trace).msg = "skip_exists"

\* C2: with skip_existing false, a git repository with an https link whose
\* directory exists when it is reached has the directory removed, with all
\* below it, and then clone_from called once on that path; no clone_from is
\* ever called on a path that exists.
C2_DeleteThenClone ==
    /\ [][ (AtRepo /\ ~loc.skip_existing /\ Qualifies(CurRepo) /\ Exists(fs, CurPath))
             => LET ev == SelectSeq(NewEvents,
                                    LAMBDA e : e.op \in {"rmtree", "clone"})
                IN /\ Len(ev) = 2
                   /\ ev[1] = EvRmTree(CurPath)
                   /\ ev[2].op = "clone"
                   /\ ev[2].path = CurPath
                   /\ ~ev[2].exists
                   /\ \A q \in fs' : ~IsPrefix(CurPath \o <<"/">>, q) ]_vars
    /\ [](\A i \in 1..Len(trace) : trace[i].op = "clone" => ~trace[i].exists)

C2_Witness ==
    /\ pc \in {"repo_item", "raised"}
    /\ ~loc.skip_existing
    /\ Len(trace) >= 2
    /\ Last(trace).op = "clone"
    /\ trace[Len(trace) - 1] = EvRmTree(Last(trace).path)

\* C3 as stated: a clone run without -s skips existing directories and
\* deletes none.
C3_DefaultSkips ==
    (argv.command = "clone" /\ ~argv.s) => Events(trace, "rmtree") = <<>>

\* C3, amended: in a clone run skip_existing is what -s says; without -s a
\* directory that exists is deleted and never skipped, with -s it is skipped
\* and none is deleted.
C3_FlagDecides ==
    (argv.command = "clone" /\ pc # "main")
        => /\ loc.skip_existing = argv.s
           /\ argv.s => Events(trace, "rmtree") = <<>>
           /\ ~argv.s => Prints(trace, "skip_exists") = <<>>

C3_Witness ==
    /\ argv.command = "clone"
    /\ ~argv.s
    /\ Events(trace, "rmtree") # <<>>
    /\ Events(trace, "clone") # <<>>

\* C4: when every page is answered with 200, a walk that has returned has
\* fetched each page of the chain once, in order, up to the page with no
\* `next`, has taken up the items of all pages once each in page order, and
\* has printed no warning.
C4_WalksChain ==
    /\ (ListerReturned /\ AllOk(pages))
          => /\ pages # <<>>
             /\ Last(pages).next = <<>>
             /\ GetUrls(trace) = ChainUrls(WorkspacesUrl, pages)
             /\ ret = MapWorkspaces(Listing(pages))
             /\ Prints(trace, "status") = <<>>
    /\ (WalkReturned /\ AllOk(pages))
          => /\ pages # <<>>
             /\ Last(pages).next = <<>>
             /\ GetUrls(trace) = ChainUrls(WalkedUrl, pages)
             /\ Processed(trace) = Names(Listing(pages))
             /\ Prints(trace, "status") = <<>>

C4_Witness ==
    /\ WalkReturned
    /\ AllOk(pages)
    /\ Len(pages) = 2
    /\ pages[1].values # <<>>
    /\ pages[2].values # <<>>
    /\ pages[1].values # pages[2].values

\* C5: a page answered with another status than 200 is the last one
\* fetched; the walk returns with one warning, which names the URL and the
\* status, and with the items of the pages before it.
C5_StopsOnError ==
    /\ \A i \in 1..Len(pages) :
          pages[i].status # 200
              => i = Len(pages) /\ pc \notin {"lister", "repo_get", "repo_item"}
    /\ ((ListerReturned \/ WalkReturned) /\ pages # <<>> /\ Last(pages).status # 200)
          => LET gets == Events(trace, "get")
                 warnings == Prints(trace, "status")
                 first == IF ListerReturned THEN WorkspacesUrl ELSE WalkedUrl
             IN /\ Len(gets) = Len(pages)
                /\ GetUrls(trace) = ChainUrls(first, pages)
                /\ Len(warnings) = 1
                /\ warnings[1].url = Last(gets).url
                /\ warnings[1].status = Last(pages).status
                /\ Last(trace) = warnings[1]
                /\ ListerReturned => ret = MapWorkspaces(Listing(pages))
                /\ (ListerReturned /\ Len(pages) = 1) => ret = <<>>
                /\ WalkReturned => Processed(trace) = Names(Listing(pages))

C5_Witness ==
    /\ ListerReturned
    /\ Len(pages) = 2
    /\ pages[1].values # <<>>
    /\ pages[2].status = 404
    /\ ret # <<>>

\* C6 as stated: over a workspace none of whose directories existed, the
\* clones are as many as the git repositories with an https link.
C6_ClonesAllQualifying ==
    (WalkReturned /\ trace # <<>> /\ trace[1].op = "mkdir")
        => Len(Events(trace, "clone")) = Len(Qualifying(Listing(pages)))

\* C6, amended: a git repository with an https link whose directory does not
\* exist when it is reached is cloned once; a repository that is not git or
\* has no https link is not cloned and gets one skip message; so the clones
\* are as many as the git repositories with an https link, less those
\* skipped because their directory existed when they were reached.
C6_ClonesWhenAbsent ==
    /\ [][ AtRepo
             => LET clones == Events(NewEvents, "clone")
                    skips == SkipMessages(NewEvents)
                IN IF Qualifies(CurRepo)
                   THEN /\ ~Exists(fs, CurPath)
                             => Len(clones) = 1 /\ clones[1].path = CurPath
                        /\ skips = <<>>
                   ELSE /\ clones = <<>>
                        /\ Len(skips) = 1
                        /\ skips[1].name = CurRepo.name
                        /\ fs' = fs ]_vars
    /\ [](WalkReturned
             => /\ Len(Events(trace, "clone"))
                   = Len(Qualifying(Listing(pages)))
                       - Len(Prints(trace, "skip_exists"))
                /\ Len(SkipMessages(trace))
                   = Len(Listing(pages)) - Len(Qualifying(Listing(pages))))

C6_Witness ==
    /\ WalkReturned
    /\ trace[1].op = "mkdir"
    /\ Len(Listing(pages)) = 2
    /\ Len(Qualifying(Listing(pages))) = 1
    /\ Len(Events(trace, "clone")) = 1
    /\ Len(SkipMessages(trace)) = 1

\* C7: clone_from is never called with the None that add_credentials
\* returned.
C7_NoCloneOfNone ==
    \A i \in 1..Len(trace) : trace[i].op = "clone" => trace[i].url # None

\* C8: add_credentials returns https://user:password@ followed by what is
\* after the last "@", else by all that is after the first "//", else None
\* with a message.
AfterLast(url, sep) == Drop(url, Max(Occurrences(url, sep)) + Len(sep))

AfterFirst(url, sep) == Drop(url, Min(Occurrences(url, sep)) + Len(sep))

C8_EmbedsAfterMarker ==
    pc = "returned"
        => IF Contains(argv.url, <<"@">>)
           THEN ret = WithCredentials(argv.user, argv.password,
                                      AfterLast(argv.url, <<"@">>))
           ELSE IF Contains(argv.url, <<"/", "/">>)
           THEN ret = WithCredentials(argv.user, argv.password,
                                      AfterFirst(argv.url, <<"/", "/">>))
           ELSE ret = None /\ Len(trace) = 1

ProjectCounted ==
    /\ pc = "h_proj"
    /\ trace # <<>>
    /\ Last(trace).op = "print"
    /\ Last(trace).msg = "repos_in_project"

WorkspaceCounted ==
    /\ pc = "h_ws"
    /\ trace # <<>>
    /\ Last(trace).op = "print"
    /\ Last(trace).msg = "totals"

\* C9 as stated: the count printed for a project is the number of its
\* repositories that are git and have an https link.
C9_CountsQualifying ==
    ProjectCounted => Last(trace).n = Len(Qualifying(loc.repositories))

\* C9, amended: the count printed for a project is the number of
\* repositories its listing holds, git or not, with an https link or not;
\* the count printed for a workspace is the sum of the counts printed for
\* its projects.
C9_CountsListed ==
    /\ ProjectCounted
          => /\ Last(trace).n = Len(loc.repositories)
             /\ totals # <<>>
             /\ Last(totals) = Len(loc.repositories)
    /\ WorkspaceCounted => Last(trace).repos = Sum(totals)

C9_Witness ==
    /\ ProjectCounted
    /\ Len(totals) = 2
    /\ Len(loc.repositories) = 2
    /\ Len(Qualifying(loc.repositories)) = 1

RootMissing == ~Exists(fs, Strip(argv.root))

KeywordEmpty == Strip(argv.keyword) = <<>>

\* the lister has returned and no slug holds the keyword
NoSlugMatches ==
    /\ pc \notin {"main", "lister", "lister_ret"}
    /\ \A i \in 1..Len(loc.workspaces) :
          ~Contains(loc.workspaces[i].slug, Strip(argv.keyword))

\* C10: when the root path does not exist, or the keyword is empty, or no
\* slug holds the keyword, clone_projects clones nothing, leaves the file
\* system as it is, requests no projects and no repositories, and ends with
\* a message.
C10_AbortsClean ==
    /\ []((RootMissing \/ KeywordEmpty \/ NoSlugMatches)
             => /\ pc \notin {"h_proj", "h_repo", "raised"}
                /\ \A i \in 1..Len(trace) :
                      /\ trace[i].op \notin {"clone", "rmtree", "mkdir"}
                      /\ trace[i].op = "get" => trace[i].url.ep = "workspaces"
                /\ pc = "done"
                      => /\ trace # <<>>
                         /\ Last(trace).op = "print"
                         /\ Last(trace).msg \in {"invalid_path", "invalid_keyword",
                                                 "no_match"})
    /\ [][ (RootMissing \/ KeywordEmpty \/ NoSlugMatches) => fs' = fs ]_vars

C10_Witness ==
    /\ pc = "done"
    /\ NoSlugMatches
    /\ Len(loc.workspaces) = 2
    /\ Last(trace).op = "print"
    /\ Last(trace).msg = "no_match"

====
